---------------------------- MODULE Spec2Model ----------------------------
(***************************************************************************)
(* A model of circana_data_script.py: the filename date extractor, the     *)
(* path builder, the directory scan and the per-file load / save / move    *)
(* sequence of the batch runner.                                           *)
(*                                                                         *)
(* Python strings are modelled as sequences of one-character strings, so   *)
(* that regular-expression search, formatting, joining and substring tests *)
(* are computed character by character.  Python's None is the empty        *)
(* sequence <<>> and an optional value v that is present is <<v>>.         *)
(***************************************************************************)
EXTENDS Integers, Sequences, FiniteSets, TLC

VARIABLES
    filename,        \* argument of extract_date_from_filename / create_new_filename
    today,           \* <<year, month, day>> that datetime.now() returns; <<>> while it was not read
    date_tuple,      \* result of extract_date_from_filename; <<>> before the call
    formatted_date,  \* result of format_date; <<>> before the call
    new_filename,    \* result of create_new_filename; <<>> before the call
    dpc,             \* position of the date / name calls
    fs,              \* the filesystem: path -> [kind, origin, sheets]
    directory,       \* argument `directory`
    output_dir,      \* argument `output_dir`
    archive_dir,     \* argument `archive_dir`
    excel_files,     \* the list find_excel_files returned
    results,         \* the dict process_all_excel_files builds: path -> [status, output, error]
    idx,             \* number of list entries the for loop has consumed
    log,             \* per consumed entry: what its process_excel_file call did
    pc               \* position of process_all_excel_files / find_excel_files

date_vars == <<filename, today, date_tuple, formatted_date, new_filename, dpc>>
batch_vars == <<fs, directory, output_dir, archive_dir, excel_files, results, idx, log, pc>>
vars == <<filename, today, date_tuple, formatted_date, new_filename, dpc,
          fs, directory, output_dir, archive_dir, excel_files, results, idx, log, pc>>

None == <<>>
Some(v) == <<v>>

(***************************************************************************)
(* Bounds of the model.                                                    *)
(***************************************************************************)
MaxTokens == 2      \* a filename is a concatenation of at most MaxTokens tokens
MaxDayOffset == 6   \* the clock reads a start date plus 0..MaxDayOffset days
MaxFiles == 2       \* entries initially present in the filesystem
MaxFaults == 1      \* injected I/O faults per batch

(***************************************************************************)
(* Characters and strings.                                                 *)
(*                                                                         *)
(* A character is a one-character string; the grave accent and every      *)
(* character outside printable ASCII other than \t, \n, \f and \r is the   *)
(* string "U+" followed by its code point in hexadecimal, so "U+0663" is   *)
(* ARABIC-INDIC DIGIT THREE and "U+000B" is the vertical tab.              *)
(***************************************************************************)
Range(seq) == {seq[i] : i \in 1..Len(seq)}

\* the decimal digits of Unicode (category Nd, Unicode 14), one row per
\* script, each row in the order 0 .. 9
DecimalDigitRows ==
    << <<"0", "1", "2", "3", "4", "5", "6", "7", "8", "9">>,
       <<"U+0660", "U+0661", "U+0662", "U+0663", "U+0664", "U+0665", "U+0666", "U+0667", "U+0668", "U+0669">>,
       <<"U+06F0", "U+06F1", "U+06F2", "U+06F3", "U+06F4", "U+06F5", "U+06F6", "U+06F7", "U+06F8", "U+06F9">>,
       <<"U+07C0", "U+07C1", "U+07C2", "U+07C3", "U+07C4", "U+07C5", "U+07C6", "U+07C7", "U+07C8", "U+07C9">>,
       <<"U+0966", "U+0967", "U+0968", "U+0969", "U+096A", "U+096B", "U+096C", "U+096D", "U+096E", "U+096F">>,
       <<"U+09E6", "U+09E7", "U+09E8", "U+09E9", "U+09EA", "U+09EB", "U+09EC", "U+09ED", "U+09EE", "U+09EF">>,
       <<"U+0A66", "U+0A67", "U+0A68", "U+0A69", "U+0A6A", "U+0A6B", "U+0A6C", "U+0A6D", "U+0A6E", "U+0A6F">>,
       <<"U+0AE6", "U+0AE7", "U+0AE8", "U+0AE9", "U+0AEA", "U+0AEB", "U+0AEC", "U+0AED", "U+0AEE", "U+0AEF">>,
       <<"U+0B66", "U+0B67", "U+0B68", "U+0B69", "U+0B6A", "U+0B6B", "U+0B6C", "U+0B6D", "U+0B6E", "U+0B6F">>,
       <<"U+0BE6", "U+0BE7", "U+0BE8", "U+0BE9", "U+0BEA", "U+0BEB", "U+0BEC", "U+0BED", "U+0BEE", "U+0BEF">>,
       <<"U+0C66", "U+0C67", "U+0C68", "U+0C69", "U+0C6A", "U+0C6B", "U+0C6C", "U+0C6D", "U+0C6E", "U+0C6F">>,
       <<"U+0CE6", "U+0CE7", "U+0CE8", "U+0CE9", "U+0CEA", "U+0CEB", "U+0CEC", "U+0CED", "U+0CEE", "U+0CEF">>,
       <<"U+0D66", "U+0D67", "U+0D68", "U+0D69", "U+0D6A", "U+0D6B", "U+0D6C", "U+0D6D", "U+0D6E", "U+0D6F">>,
       <<"U+0DE6", "U+0DE7", "U+0DE8", "U+0DE9", "U+0DEA", "U+0DEB", "U+0DEC", "U+0DED", "U+0DEE", "U+0DEF">>,
       <<"U+0E50", "U+0E51", "U+0E52", "U+0E53", "U+0E54", "U+0E55", "U+0E56", "U+0E57", "U+0E58", "U+0E59">>,
       <<"U+0ED0", "U+0ED1", "U+0ED2", "U+0ED3", "U+0ED4", "U+0ED5", "U+0ED6", "U+0ED7", "U+0ED8", "U+0ED9">>,
       <<"U+0F20", "U+0F21", "U+0F22", "U+0F23", "U+0F24", "U+0F25", "U+0F26", "U+0F27", "U+0F28", "U+0F29">>,
       <<"U+1040", "U+1041", "U+1042", "U+1043", "U+1044", "U+1045", "U+1046", "U+1047", "U+1048", "U+1049">>,
       <<"U+1090", "U+1091", "U+1092", "U+1093", "U+1094", "U+1095", "U+1096", "U+1097", "U+1098", "U+1099">>,
       <<"U+17E0", "U+17E1", "U+17E2", "U+17E3", "U+17E4", "U+17E5", "U+17E6", "U+17E7", "U+17E8", "U+17E9">>,
       <<"U+1810", "U+1811", "U+1812", "U+1813", "U+1814", "U+1815", "U+1816", "U+1817", "U+1818", "U+1819">>,
       <<"U+1946", "U+1947", "U+1948", "U+1949", "U+194A", "U+194B", "U+194C", "U+194D", "U+194E", "U+194F">>,
       <<"U+19D0", "U+19D1", "U+19D2", "U+19D3", "U+19D4", "U+19D5", "U+19D6", "U+19D7", "U+19D8", "U+19D9">>,
       <<"U+1A80", "U+1A81", "U+1A82", "U+1A83", "U+1A84", "U+1A85", "U+1A86", "U+1A87", "U+1A88", "U+1A89">>,
       <<"U+1A90", "U+1A91", "U+1A92", "U+1A93", "U+1A94", "U+1A95", "U+1A96", "U+1A97", "U+1A98", "U+1A99">>,
       <<"U+1B50", "U+1B51", "U+1B52", "U+1B53", "U+1B54", "U+1B55", "U+1B56", "U+1B57", "U+1B58", "U+1B59">>,
       <<"U+1BB0", "U+1BB1", "U+1BB2", "U+1BB3", "U+1BB4", "U+1BB5", "U+1BB6", "U+1BB7", "U+1BB8", "U+1BB9">>,
       <<"U+1C40", "U+1C41", "U+1C42", "U+1C43", "U+1C44", "U+1C45", "U+1C46", "U+1C47", "U+1C48", "U+1C49">>,
       <<"U+1C50", "U+1C51", "U+1C52", "U+1C53", "U+1C54", "U+1C55", "U+1C56", "U+1C57", "U+1C58", "U+1C59">>,
       <<"U+A620", "U+A621", "U+A622", "U+A623", "U+A624", "U+A625", "U+A626", "U+A627", "U+A628", "U+A629">>,
       <<"U+A8D0", "U+A8D1", "U+A8D2", "U+A8D3", "U+A8D4", "U+A8D5", "U+A8D6", "U+A8D7", "U+A8D8", "U+A8D9">>,
       <<"U+A900", "U+A901", "U+A902", "U+A903", "U+A904", "U+A905", "U+A906", "U+A907", "U+A908", "U+A909">>,
       <<"U+A9D0", "U+A9D1", "U+A9D2", "U+A9D3", "U+A9D4", "U+A9D5", "U+A9D6", "U+A9D7", "U+A9D8", "U+A9D9">>,
       <<"U+A9F0", "U+A9F1", "U+A9F2", "U+A9F3", "U+A9F4", "U+A9F5", "U+A9F6", "U+A9F7", "U+A9F8", "U+A9F9">>,
       <<"U+AA50", "U+AA51", "U+AA52", "U+AA53", "U+AA54", "U+AA55", "U+AA56", "U+AA57", "U+AA58", "U+AA59">>,
       <<"U+ABF0", "U+ABF1", "U+ABF2", "U+ABF3", "U+ABF4", "U+ABF5", "U+ABF6", "U+ABF7", "U+ABF8", "U+ABF9">>,
       <<"U+FF10", "U+FF11", "U+FF12", "U+FF13", "U+FF14", "U+FF15", "U+FF16", "U+FF17", "U+FF18", "U+FF19">>,
       <<"U+104A0", "U+104A1", "U+104A2", "U+104A3", "U+104A4", "U+104A5", "U+104A6", "U+104A7", "U+104A8", "U+104A9">>,
       <<"U+10D30", "U+10D31", "U+10D32", "U+10D33", "U+10D34", "U+10D35", "U+10D36", "U+10D37", "U+10D38", "U+10D39">>,
       <<"U+11066", "U+11067", "U+11068", "U+11069", "U+1106A", "U+1106B", "U+1106C", "U+1106D", "U+1106E", "U+1106F">>,
       <<"U+110F0", "U+110F1", "U+110F2", "U+110F3", "U+110F4", "U+110F5", "U+110F6", "U+110F7", "U+110F8", "U+110F9">>,
       <<"U+11136", "U+11137", "U+11138", "U+11139", "U+1113A", "U+1113B", "U+1113C", "U+1113D", "U+1113E", "U+1113F">>,
       <<"U+111D0", "U+111D1", "U+111D2", "U+111D3", "U+111D4", "U+111D5", "U+111D6", "U+111D7", "U+111D8", "U+111D9">>,
       <<"U+112F0", "U+112F1", "U+112F2", "U+112F3", "U+112F4", "U+112F5", "U+112F6", "U+112F7", "U+112F8", "U+112F9">>,
       <<"U+11450", "U+11451", "U+11452", "U+11453", "U+11454", "U+11455", "U+11456", "U+11457", "U+11458", "U+11459">>,
       <<"U+114D0", "U+114D1", "U+114D2", "U+114D3", "U+114D4", "U+114D5", "U+114D6", "U+114D7", "U+114D8", "U+114D9">>,
       <<"U+11650", "U+11651", "U+11652", "U+11653", "U+11654", "U+11655", "U+11656", "U+11657", "U+11658", "U+11659">>,
       <<"U+116C0", "U+116C1", "U+116C2", "U+116C3", "U+116C4", "U+116C5", "U+116C6", "U+116C7", "U+116C8", "U+116C9">>,
       <<"U+11730", "U+11731", "U+11732", "U+11733", "U+11734", "U+11735", "U+11736", "U+11737", "U+11738", "U+11739">>,
       <<"U+118E0", "U+118E1", "U+118E2", "U+118E3", "U+118E4", "U+118E5", "U+118E6", "U+118E7", "U+118E8", "U+118E9">>,
       <<"U+11950", "U+11951", "U+11952", "U+11953", "U+11954", "U+11955", "U+11956", "U+11957", "U+11958", "U+11959">>,
       <<"U+11C50", "U+11C51", "U+11C52", "U+11C53", "U+11C54", "U+11C55", "U+11C56", "U+11C57", "U+11C58", "U+11C59">>,
       <<"U+11D50", "U+11D51", "U+11D52", "U+11D53", "U+11D54", "U+11D55", "U+11D56", "U+11D57", "U+11D58", "U+11D59">>,
       <<"U+11DA0", "U+11DA1", "U+11DA2", "U+11DA3", "U+11DA4", "U+11DA5", "U+11DA6", "U+11DA7", "U+11DA8", "U+11DA9">>,
       <<"U+16A60", "U+16A61", "U+16A62", "U+16A63", "U+16A64", "U+16A65", "U+16A66", "U+16A67", "U+16A68", "U+16A69">>,
       <<"U+16AC0", "U+16AC1", "U+16AC2", "U+16AC3", "U+16AC4", "U+16AC5", "U+16AC6", "U+16AC7", "U+16AC8", "U+16AC9">>,
       <<"U+16B50", "U+16B51", "U+16B52", "U+16B53", "U+16B54", "U+16B55", "U+16B56", "U+16B57", "U+16B58", "U+16B59">>,
       <<"U+1D7CE", "U+1D7CF", "U+1D7D0", "U+1D7D1", "U+1D7D2", "U+1D7D3", "U+1D7D4", "U+1D7D5", "U+1D7D6", "U+1D7D7">>,
       <<"U+1D7D8", "U+1D7D9", "U+1D7DA", "U+1D7DB", "U+1D7DC", "U+1D7DD", "U+1D7DE", "U+1D7DF", "U+1D7E0", "U+1D7E1">>,
       <<"U+1D7E2", "U+1D7E3", "U+1D7E4", "U+1D7E5", "U+1D7E6", "U+1D7E7", "U+1D7E8", "U+1D7E9", "U+1D7EA", "U+1D7EB">>,
       <<"U+1D7EC", "U+1D7ED", "U+1D7EE", "U+1D7EF", "U+1D7F0", "U+1D7F1", "U+1D7F2", "U+1D7F3", "U+1D7F4", "U+1D7F5">>,
       <<"U+1D7F6", "U+1D7F7", "U+1D7F8", "U+1D7F9", "U+1D7FA", "U+1D7FB", "U+1D7FC", "U+1D7FD", "U+1D7FE", "U+1D7FF">>,
       <<"U+1E140", "U+1E141", "U+1E142", "U+1E143", "U+1E144", "U+1E145", "U+1E146", "U+1E147", "U+1E148", "U+1E149">>,
       <<"U+1E2F0", "U+1E2F1", "U+1E2F2", "U+1E2F3", "U+1E2F4", "U+1E2F5", "U+1E2F6", "U+1E2F7", "U+1E2F8", "U+1E2F9">>,
       <<"U+1E950", "U+1E951", "U+1E952", "U+1E953", "U+1E954", "U+1E955", "U+1E956", "U+1E957", "U+1E958", "U+1E959">>,
       <<"U+1FBF0", "U+1FBF1", "U+1FBF2", "U+1FBF3", "U+1FBF4", "U+1FBF5", "U+1FBF6", "U+1FBF7", "U+1FBF8", "U+1FBF9">> >>

\* the code point of the first character of each row of DecimalDigitRows
DecimalDigitZeros ==
    << 48, 1632, 1776, 1984, 2406, 2534, 2662, 2790, 2918, 3046,
       3174, 3302, 3430, 3558, 3664, 3792, 3872, 4160, 4240, 6112,
       6160, 6470, 6608, 6784, 6800, 6992, 7088, 7232, 7248, 42528,
       43216, 43264, 43472, 43504, 43600, 44016, 65296, 66720, 68912, 69734,
       69872, 69942, 70096, 70384, 70736, 70864, 71248, 71360, 71472, 71904,
       72016, 72784, 73040, 73120, 92768, 92864, 93008, 120782, 120792, 120802,
       120812, 120822, 123200, 123632, 125264, 130032 >>

\* the characters \s of the re module matches in a str pattern
Whitespace ==
    {"\t", "\n", "U+000B", "\f", "\r", "U+001C", "U+001D", "U+001E",
     "U+001F", " ", "U+0085", "U+00A0", "U+1680", "U+2000", "U+2001", "U+2002",
     "U+2003", "U+2004", "U+2005", "U+2006", "U+2007", "U+2008", "U+2009", "U+200A",
     "U+2028", "U+2029", "U+202F", "U+205F", "U+3000"}

\* the printable ASCII characters, U+0020 .. U+007E, in code point order
AsciiPrintable ==
    << " ", "!", "\"", "#", "$", "%", "&", "'", "(", ")", "*", "+",
       ",", "-", ".", "/", "0", "1", "2", "3", "4", "5", "6", "7",
       "8", "9", ":", ";", "<", "=", ">", "?", "@", "A", "B", "C",
       "D", "E", "F", "G", "H", "I", "J", "K", "L", "M", "N", "O",
       "P", "Q", "R", "S", "T", "U", "V", "W", "X", "Y", "Z", "[",
       "\\", "]", "^", "_", "U+0060", "a", "b", "c", "d", "e", "f", "g",
       "h", "i", "j", "k", "l", "m", "n", "o", "p", "q", "r", "s",
       "t", "u", "v", "w", "x", "y", "z", "{", "|", "}", "~" >>

\* the other characters of the model's alphabet: runs of consecutive code
\* points, each with the code point of its first character
OtherRuns ==
    << [first |-> 9, chars |-> <<"\t", "\n", "U+000B", "\f", "\r">>],
       [first |-> 28, chars |-> <<"U+001C", "U+001D", "U+001E", "U+001F">>],
       [first |-> 133, chars |-> <<"U+0085">>],
       [first |-> 160, chars |-> <<"U+00A0">>],
       [first |-> 5760, chars |-> <<"U+1680">>],
       [first |-> 8192, chars |-> <<"U+2000", "U+2001", "U+2002", "U+2003", "U+2004", "U+2005", "U+2006", "U+2007", "U+2008", "U+2009", "U+200A">>],
       [first |-> 8232, chars |-> <<"U+2028", "U+2029">>],
       [first |-> 8239, chars |-> <<"U+202F">>],
       [first |-> 8287, chars |-> <<"U+205F">>],
       [first |-> 12288, chars |-> <<"U+3000">>] >>

Digits == DecimalDigitRows[1]

DecimalDigits == UNION {Range(DecimalDigitRows[r]) : r \in 1..Len(DecimalDigitRows)}

\* \d of the re module in a str pattern: any Unicode decimal digit
isdigit(c) == c \in DecimalDigits

\* \s of the re module in a str pattern: any Unicode whitespace character
isspace(c) == c \in Whitespace

\* the value int() gives each decimal digit
DigitValue ==
    [c \in DecimalDigits |->
        CHOOSE v \in 0..9 : \E r \in 1..Len(DecimalDigitRows) : DecimalDigitRows[r][v + 1] = c]

DigitVal(c) == DigitValue[c]

\* the runs of consecutive code points the alphabet is made of
CodeRuns ==
    <<[first |-> 32, chars |-> AsciiPrintable]>> \o OtherRuns \o
    [r \in 1..Len(DecimalDigitRows) |->
        [first |-> DecimalDigitZeros[r], chars |-> DecimalDigitRows[r]]]

\* ord(c), for a character of the alphabet
code_point(c) ==
    LET r == CHOOSE r \in 1..Len(CodeRuns) : c \in Range(CodeRuns[r].chars)
        i == CHOOSE i \in 1..Len(CodeRuns[r].chars) : CodeRuns[r].chars[i] = c
    IN  CodeRuns[r].first + i - 1

UpperCase == <<"A", "B", "C", "D", "E", "F", "G", "H", "I", "J", "K", "L", "M",
               "N", "O", "P", "Q", "R", "S", "T", "U", "V", "W", "X", "Y", "Z">>
LowerCase == <<"a", "b", "c", "d", "e", "f", "g", "h", "i", "j", "k", "l", "m",
               "n", "o", "p", "q", "r", "s", "t", "u", "v", "w", "x", "y", "z">>

\* str.lower() of a string of the alphabet: the ASCII capitals are the only
\* characters of the alphabet it changes
lower(s) ==
    [i \in 1..Len(s) |->
        IF s[i] \in Range(UpperCase)
        THEN LowerCase[CHOOSE k \in 1..26 : UpperCase[k] = s[i]]
        ELSE s[i]]

\* int() of a two-digit group
int2(s, i) == 10 * DigitVal(s[i]) + DigitVal(s[i + 1])

RECURSIVE int_to_str(_)
\* str() of a natural number: its decimal digits
int_to_str(n) ==
    IF n < 10 THEN <<Digits[n + 1]>>
    ELSE int_to_str(n \div 10) \o <<Digits[(n % 10) + 1]>>

\* variant: the width of the format specification left out
zero_pad2_unpadded(n) == int_to_str(n)
\* the format specification 02d of an f-string: at least two digits, zero padded
zero_pad2(n) ==
    IF Len(int_to_str(n)) < 2 THEN <<"0">> \o int_to_str(n) ELSE int_to_str(n)

RECURSIVE Concat(_)
\* the concatenation of a sequence of strings
Concat(ss) == IF ss = <<>> THEN <<>> ELSE Head(ss) \o Concat(Tail(ss))

\* needle in s
Contains(s, needle) ==
    \E i \in 1..(Len(s) - Len(needle) + 1) :
        SubSeq(s, i, i + Len(needle) - 1) = needle

endswith(s, suffix) ==
    /\ Len(s) >= Len(suffix)
    /\ SubSeq(s, Len(s) - Len(suffix) + 1, Len(s)) = suffix

(***************************************************************************)
(* The proleptic Gregorian calendar of the datetime module.                *)
(***************************************************************************)
is_leap(y) == (y % 4 = 0) /\ ((y % 100 # 0) \/ (y % 400 = 0))

days_in_month(y, m) ==
    IF m = 2 THEN (IF is_leap(y) THEN 29 ELSE 28)
    ELSE IF m \in {4, 6, 9, 11} THEN 30 ELSE 31

days_before_year(y) ==
    (y - 1) * 365 + ((y - 1) \div 4) - ((y - 1) \div 100) + ((y - 1) \div 400)

RECURSIVE days_before_month(_, _)
days_before_month(y, m) ==
    IF m = 1 THEN 0 ELSE days_before_month(y, m - 1) + days_in_month(y, m - 1)

\* date.toordinal(): 0001-01-01 is day 1
ymd2ord(d) == days_before_year(d[1]) + days_before_month(d[1], d[2]) + d[3]

\* date.fromordinal(), for an ordinal in the year y or the year before it
ord2ymd(n, y) ==
    LET yr == IF n > days_before_year(y) THEN y ELSE y - 1
        in_year == n - days_before_year(yr)
        m == CHOOSE k \in 1..12 :
                 /\ in_year > days_before_month(yr, k)
                 /\ in_year <= days_before_month(yr, k) + days_in_month(yr, k)
    IN  <<yr, m, in_year - days_before_month(yr, m)>>

\* date.weekday(): Monday is 0, Sunday is 6
weekday(d) == (ymd2ord(d) + 6) % 7

\* d - timedelta(days=k), for k of at most a week
minus_days(d, k) == ord2ymd(ymd2ord(d) - k, d[1])

(***************************************************************************)
(* extract_date_from_filename                                              *)
(***************************************************************************)
\* dot_pattern matches at position i of s
dot_match_at(s, i) ==
    /\ i >= 1
    /\ i + 7 <= Len(s)
    /\ isdigit(s[i]) /\ isdigit(s[i + 1]) /\ s[i + 2] = "."
    /\ isdigit(s[i + 3]) /\ isdigit(s[i + 4]) /\ s[i + 5] = "."
    /\ isdigit(s[i + 6]) /\ isdigit(s[i + 7])

\* no_dot_pattern matches at position i of s with k whitespace characters
no_dot_match_at(s, i, k) ==
    /\ i >= 1
    /\ i + 1 <= Len(s)
    /\ s[i] = "W" /\ s[i + 1] = "E"
    /\ k >= 1
    /\ i + 1 + k + 6 <= Len(s)
    /\ \A j \in 1..k : isspace(s[i + 1 + j])
    /\ \A j \in 1..6 : isdigit(s[i + 1 + k + j])

RECURSIVE search_dot(_, _)
\* re.search(dot_pattern, s) scanning from position i: the start of the
\* leftmost match, 0 for no match
search_dot(s, i) ==
    IF i + 7 > Len(s) THEN 0
    ELSE IF dot_match_at(s, i) THEN i
    ELSE search_dot(s, i + 1)

RECURSIVE search_no_dot(_, _)
\* re.search(no_dot_pattern, s) scanning from position i: <<start of the
\* leftmost match, start of its first group>>, <<0, 0>> for no match
search_no_dot(s, i) ==
    IF i + 8 > Len(s) THEN <<0, 0>>
    ELSE IF s[i] = "W" /\ (\E k \in 1..Len(s) : no_dot_match_at(s, i, k))
         THEN <<i, i + 2 + (CHOOSE k \in 1..Len(s) : no_dot_match_at(s, i, k))>>
    ELSE search_no_dot(s, i + 1)

\* whether the call reaches datetime.now()
reads_clock(s) == search_dot(s, 1) = 0 /\ search_no_dot(s, 1)[1] = 0

\* variant: a Sunday counted as 0 days since Sunday
previous_sunday_same_week(now) == minus_days(now, (weekday(now) + 1) % 7)
\* lines 34-37: today minus (weekday() + 1) days
previous_sunday(now) == minus_days(now, weekday(now) + 1)

\* variant: the WE pattern tried before the dotted pattern
extract_first_wins_no_dot(s, now) ==
    LET d == search_dot(s, 1)
        g == search_no_dot(s, 1)[2]
    IN  IF g # 0 THEN <<int2(s, g), int2(s, g + 2), 2000 + int2(s, g + 4)>>
        ELSE IF d # 0 THEN <<int2(s, d), int2(s, d + 3), 2000 + int2(s, d + 6)>>
        ELSE LET p == previous_sunday(now) IN <<p[2], p[3], p[1]>>
\* variant: the day of a WE block read from its last two digits
extract_no_dot_last_pair_day(s, now) ==
    LET d == search_dot(s, 1)
        g == search_no_dot(s, 1)[2]
    IN  IF d # 0 THEN <<int2(s, d), int2(s, d + 3), 2000 + int2(s, d + 6)>>
        ELSE IF g # 0 THEN <<int2(s, g), int2(s, g + 4), 2000 + int2(s, g + 4)>>
        ELSE LET p == previous_sunday(now) IN <<p[2], p[3], p[1]>>
\* the (month, day, year) the function returns when the clock reads `now`
extract_date_from_filename(s, now) ==
    LET d == search_dot(s, 1)
        g == search_no_dot(s, 1)[2]
    IN  IF d # 0 THEN <<int2(s, d), int2(s, d + 3), 2000 + int2(s, d + 6)>>
        ELSE IF g # 0 THEN <<int2(s, g), int2(s, g + 2), 2000 + int2(s, g + 4)>>
        ELSE LET p == previous_sunday(now) IN <<p[2], p[3], p[1]>>

(***************************************************************************)
(* format_date, create_new_filename                                        *)
(***************************************************************************)
format_date(date_tuple_arg) ==
    zero_pad2(date_tuple_arg[1]) \o <<"-">> \o zero_pad2(date_tuple_arg[2]) \o <<"-">> \o
    int_to_str(date_tuple_arg[3])

create_new_filename(original_filename, now) ==
    format_date(extract_date_from_filename(original_filename, now)) \o <<"_">> \o
    original_filename

(***************************************************************************)
(* The date and name calls: one filename, one call of each function.       *)
(***************************************************************************)
S_dot_date == <<"0", "4", ".", "2", "7", ".", "2", "5">>
\* 13.32.99: no month 13 and no day 32 exist
S_dot_date_2 == <<"1", "3", ".", "3", "2", ".", "9", "9">>
S_six_digits == <<"0", "4", "2", "0", "2", "5">>
S_we_block == <<"W", "E", " ", "0", "4", "2", "0", "2", "5">>
S_we_block_2 == <<"W", "E", " ", "\t", "0", "5", "1", "1", "2", "5">>
\* 04.27.25 in Arabic-Indic digits
S_dot_date_3 == <<"U+0660", "U+0664", ".", "U+0662", "U+0667", ".", "U+0662", "U+0665">>
\* WE, a vertical tab, an em space and 051825 in fullwidth digits
S_we_block_3 == <<"W", "E", "U+000B", "U+2003", "U+FF10", "U+FF15", "U+FF11", "U+FF18", "U+FF12", "U+FF15">>

FilenameTokens ==
    {S_dot_date, S_dot_date_2, S_dot_date_3, S_six_digits, S_we_block, S_we_block_2,
     S_we_block_3, <<"W", "E">>, <<" ">>, <<".">>, <<"1">>}

\* the filenames the calls are made with
Filenames ==
    {Concat(ts) : ts \in UNION {[1..n -> FilenameTokens] : n \in 1..MaxTokens}}

StartDates == {<<2023, 12, 28>>, <<2024, 2, 26>>, <<2024, 5, 12>>}

\* the values datetime.now() returns
Todays ==
    {ord2ymd(ymd2ord(s) + k, s[1] + 1) : s \in StartDates, k \in 0..MaxDayOffset}

BatchIdle ==
    /\ fs = <<>> /\ directory = <<>> /\ output_dir = <<>> /\ archive_dir = <<>>
    /\ excel_files = <<>> /\ results = <<>> /\ idx = 0 /\ log = <<>> /\ pc = "idle"

InitDate ==
    /\ filename \in Filenames
    /\ today = None
    /\ date_tuple = None
    /\ formatted_date = None
    /\ new_filename = None
    /\ dpc = "start"
    /\ BatchIdle

\* a call of extract_date_from_filename(filename)
ExtractDate ==
    /\ dpc = "start"
    /\ \E now \in Todays :
          /\ date_tuple' = extract_date_from_filename(filename, now)
          /\ today' = IF reads_clock(filename) THEN now ELSE None
    /\ dpc' = "extracted"
    /\ UNCHANGED <<filename, formatted_date, new_filename>>
    /\ UNCHANGED batch_vars

\* a call of format_date on the tuple just extracted
FormatDate ==
    /\ dpc = "extracted"
    /\ formatted_date' = format_date(date_tuple)
    /\ dpc' = "formatted"
    /\ UNCHANGED <<filename, today, date_tuple, new_filename>>
    /\ UNCHANGED batch_vars

\* a call of create_new_filename(filename)
CreateNewFilename ==
    /\ dpc = "start"
    /\ \E now \in Todays :
          /\ new_filename' = create_new_filename(filename, now)
          /\ date_tuple' = extract_date_from_filename(filename, now)
          /\ today' = IF reads_clock(filename) THEN now ELSE None
    /\ dpc' = "created"
    /\ UNCHANGED <<filename, formatted_date>>
    /\ UNCHANGED batch_vars

NextDate == ExtractDate \/ FormatDate \/ CreateNewFilename

SpecDate == InitDate /\ [][NextDate]_vars

(***************************************************************************)
(* Properties of the date extractor and the name builder.                  *)
(***************************************************************************)
HasDotDate(s) == \E i \in 1..Len(s) : dot_match_at(s, i)

\* the <<i, k>> at which WE, k whitespace characters and six digits start
WeBlocks(s) ==
    {b \in (1..Len(s)) \X (1..Len(s)) : no_dot_match_at(s, b[1], b[2])}

HasWeBlock(s) == WeBlocks(s) # {}

\* WE, whitespace and six digits that no seventh digit follows
we_exact_six_at(s, i, k) ==
    /\ no_dot_match_at(s, i, k)
    /\ (i + 1 + k + 6 = Len(s) \/ ~isdigit(s[i + 1 + k + 7]))

NoPattern(s) == ~HasDotDate(s) /\ ~HasWeBlock(s)

\* the (month, day, year) of three two-digit groups starting at a, b and c
Groups(s, a, b, c) == <<int2(s, a), int2(s, b), 2000 + int2(s, c)>>

\* the date a returned (month, day, year) names, as <<year, month, day>>
AsDate(t) == <<t[3], t[1], t[2]>>

IsCalendarDate(d) ==
    d[2] \in 1..12 /\ d[3] >= 1 /\ d[3] <= days_in_month(d[1], d[2])

\* C6 as stated: for a filename matching neither pattern the result is today
\* minus the days since the most recent Sunday, 0 on a Sunday, 1 on a Monday,
\* ..., 6 on a Saturday: a Sunday at most 6 days before today.
C6_SundayOffsetZero ==
    (dpc = "extracted" /\ NoPattern(filename)) =>
        /\ today # None
        /\ IsCalendarDate(AsDate(date_tuple))
        /\ weekday(AsDate(date_tuple)) = 6
        /\ ymd2ord(today) - ymd2ord(AsDate(date_tuple)) = (weekday(today) + 1) % 7
        /\ ymd2ord(today) - ymd2ord(AsDate(date_tuple)) \in 0..6

\* C6 amended: for a filename matching neither pattern the result is today
\* minus (weekday() + 1) days, that is 1 day on a Monday, ..., 6 on a Saturday
\* and 7 on a Sunday: the Sunday strictly before today, 1 to 7 days back.
C6_PreviousSunday ==
    (dpc = "extracted" /\ NoPattern(filename)) =>
        /\ today # None
        /\ IsCalendarDate(AsDate(date_tuple))
        /\ weekday(AsDate(date_tuple)) = 6
        /\ ymd2ord(today) - ymd2ord(AsDate(date_tuple)) = weekday(today) + 1
        /\ ymd2ord(today) - ymd2ord(AsDate(date_tuple)) \in 1..7

\* the fallback taken on Sunday 2024-05-12 returns the Sunday a week earlier
C6_Witness ==
    /\ dpc = "extracted"
    /\ NoPattern(filename)
    /\ today = <<2024, 5, 12>>
    /\ date_tuple = <<5, 5, 2024>>

\* C7: a filename containing dd.dd.dd yields (first pair, second pair,
\* 2000 + third pair) of the leftmost such substring, whatever else it
\* contains, and the clock is not read.
C7_DotDateWins ==
    (dpc = "extracted" /\ HasDotDate(filename)) =>
        /\ today = None
        /\ \E i \in 1..Len(filename) :
              /\ dot_match_at(filename, i)
              /\ \A j \in 1..(i - 1) : ~dot_match_at(filename, j)
              /\ date_tuple = Groups(filename, i, i + 3, i + 6)

\* a WE block precedes the dotted date 13.32.99, which is returned as month
\* 13 and day 32
C7_Witness ==
    /\ dpc = "extracted"
    /\ filename = S_we_block \o S_dot_date_2
    /\ date_tuple = <<13, 32, 2099>>

\* C8 as stated: a filename containing WE, whitespace and exactly six digits
\* yields the 2-2-2 split of those digits.
C8_WeBlockAlways ==
    (dpc = "extracted"
       /\ \E b \in WeBlocks(filename) : we_exact_six_at(filename, b[1], b[2])) =>
        \E b \in WeBlocks(filename) :
            /\ we_exact_six_at(filename, b[1], b[2])
            /\ date_tuple = Groups(filename, b[1] + 2 + b[2], b[1] + 4 + b[2],
                                   b[1] + 6 + b[2])

\* C8 amended: a filename containing no dd.dd.dd and containing WE,
\* whitespace and six digits yields the 2-2-2 split of the first six digits
\* of the leftmost such block, and the clock is not read.
C8_WeBlockWithoutDotDate ==
    (dpc = "extracted" /\ ~HasDotDate(filename) /\ HasWeBlock(filename)) =>
        /\ today = None
        /\ LET blocks == WeBlocks(filename)
           IN  \E b \in blocks :
                  /\ \A c \in blocks : b[1] <= c[1]
                  /\ date_tuple = Groups(filename, b[1] + 2 + b[2], b[1] + 4 + b[2],
                                         b[1] + 6 + b[2])

\* of two WE blocks the left one, "WE \t051125", gives (5, 11, 2025)
C8_Witness ==
    /\ dpc = "extracted"
    /\ filename = S_we_block_2 \o S_we_block
    /\ date_tuple = <<5, 11, 2025>>

\* original names a new filename is compared with: the single tokens and the
\* suffixes of the new filename that are longer than the original name
CollisionProbes ==
    FilenameTokens \cup {SubSeq(new_filename, k, Len(new_filename)) : k \in 2..11}

\* the clock reading the compared names are renamed at
ProbeClock == IF today = None THEN <<2024, 5, 12>> ELSE today

\* C9: the new filename is MM-DD-YYYY of the extracted date, an underscore
\* and the original name; the original is what follows the first eleven
\* characters, and no other original name yields the same new filename.
C9_NewFilenameShape ==
    (dpc = "created") =>
        /\ Len(new_filename) = Len(filename) + 11
        /\ \A i \in {1, 2, 4, 5, 7, 8, 9, 10} : isdigit(new_filename[i])
        /\ new_filename[3] = "-" /\ new_filename[6] = "-" /\ new_filename[11] = "_"
        /\ int2(new_filename, 1) = date_tuple[1]
        /\ int2(new_filename, 4) = date_tuple[2]
        /\ 100 * int2(new_filename, 7) + int2(new_filename, 9) = date_tuple[3]
        /\ SubSeq(new_filename, 12, Len(new_filename)) = filename
        /\ \A other \in CollisionProbes :
              other # filename =>
                  create_new_filename(other, ProbeClock) # new_filename

\* "WE04.27.25" becomes "04-27-2025_WE04.27.25"
C9_Witness ==
    /\ dpc = "created"
    /\ filename = <<"W", "E">> \o S_dot_date
    /\ new_filename = <<"0", "4", "-", "2", "7", "-", "2", "0", "2", "5", "_">> \o filename

(***************************************************************************)
(* Paths.                                                                  *)
(***************************************************************************)
S_modified_excel_workbooks == <<"m", "o", "d", "i", "f", "i", "e", "d", "_", "e", "x", "c", "e", "l", "_", "w", "o", "r", "k", "b", "o", "o", "k", "s">>
S_archived_data == <<"a", "r", "c", "h", "i", "v", "e", "d", "_", "d", "a", "t", "a">>
S_xlsx == <<".", "x", "l", "s", "x">>
S_xls == <<".", "x", "l", "s">>

\* os.path.join(a, b)
path_join(a, b) ==
    IF b # <<>> /\ b[1] = "/" THEN b
    ELSE IF a = <<>> \/ a[Len(a)] = "/" THEN a \o b
    ELSE a \o <<"/">> \o b

RECURSIVE last_slash(_, _)
\* the position of the last "/" of s at or before position i, 0 if there is none
last_slash(s, i) ==
    IF i = 0 THEN 0 ELSE IF s[i] = "/" THEN i ELSE last_slash(s, i - 1)

RECURSIVE rstrip_slash(_)
\* s.rstrip("/")
rstrip_slash(s) ==
    IF s # <<>> /\ s[Len(s)] = "/" THEN rstrip_slash(SubSeq(s, 1, Len(s) - 1)) ELSE s

\* os.path.basename: os.path.split(p)[1]
basename(p) == SubSeq(p, last_slash(p, Len(p)) + 1, Len(p))

\* os.path.dirname: os.path.split(p)[0], the text up to the last "/" with its
\* trailing slashes stripped unless it consists of slashes only
dirname(p) ==
    LET head == SubSeq(p, 1, last_slash(p, Len(p)))
    IN  IF rstrip_slash(head) # <<>> THEN rstrip_slash(head) ELSE head

RECURSIVE ext_from(_, _)
\* the extension of a name that starts at its last dot at or before position
\* i, leading dots apart
ext_from(name, i) ==
    IF i <= 1 THEN <<>>
    ELSE IF name[i] = "." THEN
        (IF \A j \in 1..(i - 1) : name[j] = "." THEN <<>> ELSE SubSeq(name, i, Len(name)))
    ELSE ext_from(name, i - 1)

\* os.path.splitext(p)[1]
splitext_ext(p) == ext_from(basename(p), Len(basename(p)))

RECURSIVE find_char(_, _, _, _)
\* s.find(c, i, hi + 1), counting positions from 1: 0 if there is none
find_char(s, c, i, hi) ==
    IF i > hi \/ i > Len(s) THEN 0 ELSE IF s[i] = c THEN i ELSE find_char(s, c, i + 1, hi)

RECURSIVE split_from(_, _)
\* p[i..].split("/")
split_from(p, i) ==
    LET k == find_char(p, "/", i, Len(p))
    IN  IF k = 0 THEN <<SubSeq(p, i, Len(p))>>
        ELSE <<SubSeq(p, i, k - 1)>> \o split_from(p, k + 1)

\* p.split("/")
components(p) == split_from(p, 1)

(***************************************************************************)
(* The filesystem.                                                         *)
(*                                                                         *)
(* The working directory of the process is /w1/w2.  fs maps the key of     *)
(* each existing entry to what is there.  A key is the canonical name of   *)
(* the entry: "." is the working directory and "a/b" an entry below it,    *)
(* ".." is /w1 and "../a/b" an entry below /w1 that is not in the working  *)
(* directory, "/" is the root and "/a/b" an entry below the root that is   *)
(* not in /w1; so every entry has one key, whatever path leads to it.  The *)
(* directories ".", ".." and "/" exist without being listed in fs.  There  *)
(* are no symbolic links.  Of an entry, kind is "workbook" (a file holding *)
(* a workbook), "corrupt" (a file holding something else) or "dir"; origin *)
(* is the key the content was first seen at; writer is "original" for      *)
(* content that was there before the run and "openpyxl" for content        *)
(* Workbook.save wrote; sheets are the sheet_state values of a workbook.   *)
(***************************************************************************)
\* os.getcwd() is /w1/w2
ParentName == <<"w", "1">>
CwdName == <<"w", "2">>

Dir == [kind |-> "dir", origin |-> <<>>, writer |-> "original", sheets |-> <<>>]

Workbook(sheets) ==
    [kind |-> "workbook", origin |-> <<>>, writer |-> "original", sheets |-> sheets]

Corrupt == [kind |-> "corrupt", origin |-> <<>>, writer |-> "original", sheets |-> <<>>]

\* the content c as first seen at key k
At(c, k) == [c EXCEPT !.origin = k]

\* the directories that exist without being listed: the working directory
\* and the two above it
implicit_dir(k) == k \in {<<".">>, <<".", ".">>, <<"/">>}

\* the key k names an entry of /w1 that is not in the working directory
beside_cwd(k) == Len(k) >= 3 /\ k[1] = "." /\ k[2] = "." /\ k[3] = "/"

\* the key of the entry named c in the directory with key k
child(k, c) ==
    IF k = <<".">> THEN c
    ELSE IF k = <<".", ".">> THEN (IF c = CwdName THEN <<".">> ELSE <<".", ".", "/">> \o c)
    ELSE IF k = <<"/">> THEN (IF c = ParentName THEN <<".", ".">> ELSE <<"/">> \o c)
    ELSE k \o <<"/">> \o c

\* the key of the directory holding the entry with key k; the root holds
\* itself
parent(k) ==
    IF k \in {<<"/">>, <<".", ".">>} THEN <<"/">>
    ELSE IF k = <<".">> THEN <<".", ".">>
    ELSE IF last_slash(k, Len(k)) = 0 THEN <<".">>
    ELSE IF last_slash(k, Len(k)) = 1 THEN <<"/">>
    ELSE IF last_slash(k, Len(k)) = 3 /\ beside_cwd(k) THEN <<".", ".">>
    ELSE SubSeq(k, 1, last_slash(k, Len(k)) - 1)

\* the key one component c of a path leads to from the directory with key k
step(k, c) ==
    IF c \in {<<>>, <<".">>} THEN k
    ELSE IF c = <<".", ".">> THEN parent(k)
    ELSE child(k, c)

exists(fsys, k) == k \in DOMAIN fsys \/ implicit_dir(k)

is_dir(fsys, k) == (k \in DOMAIN fsys /\ fsys[k].kind = "dir") \/ implicit_dir(k)

RECURSIVE walk(_, _, _, _)
\* path resolution from the directory with key k along comps[i], comps[i+1],
\* ...: every component is looked up in an existing directory
walk(fsys, k, comps, i) ==
    IF i > Len(comps) THEN [err |-> "", key |-> k]
    ELSE IF ~is_dir(fsys, k)
    THEN [err |-> IF exists(fsys, k) THEN "NotADirectoryError" ELSE "FileNotFoundError",
          key |-> <<>>]
    ELSE walk(fsys, step(k, comps[i]), comps, i + 1)

\* the key a path names, or the error its lookup fails with; the entry with
\* that key need not exist
resolve(fsys, p) ==
    IF p = <<>> THEN [err |-> "FileNotFoundError", key |-> <<>>]
    ELSE IF p[1] = "/" THEN walk(fsys, <<"/">>, components(p), 2)
    ELSE walk(fsys, <<".">>, components(p), 1)

\* os.path.exists(p); os.path.lexists(p) is the same without symbolic links
path_exists(fsys, p) == LET r == resolve(fsys, p) IN r.err = "" /\ exists(fsys, r.key)

\* os.path.isdir(p)
path_isdir(fsys, p) == LET r == resolve(fsys, p) IN r.err = "" /\ is_dir(fsys, r.key)

\* fsys with key k holding content c
write_at(fsys, k, c) == [q \in DOMAIN fsys \cup {k} |-> IF q = k THEN c ELSE fsys[q]]

\* the entries of fsys that are not directories
Files(fsys) == [q \in {k \in DOMAIN fsys : fsys[k].kind # "dir"} |-> fsys[q]]

\* the names os.scandir lists in the directory with key k
listdir(fsys, k) ==
    {basename(q) : q \in {q \in DOMAIN fsys : q # k /\ parent(q) = k}}
        \cup (IF k = <<".", ".">> THEN {CwdName} ELSE IF k = <<"/">> THEN {ParentName} ELSE {})

\* all the orders a set can be listed in
Orderings(S) ==
    {o \in [1..Cardinality(S) -> S] : \A i, j \in 1..Cardinality(S) : o[i] = o[j] => i = j}

(***************************************************************************)
(* fnmatch and glob                                                        *)
(***************************************************************************)
\* glob.has_magic
has_magic(s) == \E i \in 1..Len(s) : s[i] \in {"*", "?", "["}

\* the position of the "]" that closes the bracket expression opened at
\* position j of pat, 0 if nothing closes it: a "!" and then a "]" right
\* after the "[" do not close it
bracket_close(pat, j) ==
    LET a == IF j + 1 <= Len(pat) /\ pat[j + 1] = "!" THEN j + 2 ELSE j + 1
        b == IF a <= Len(pat) /\ pat[a] = "]" THEN a + 1 ELSE a
    IN  find_char(pat, "]", b, Len(pat))

RECURSIVE range_hyphens(_, _, _)
\* the positions of the hyphens of pat[k..e] that fnmatch.translate splits a
\* bracket expression at: after a hyphen the search resumes three positions on
range_hyphens(pat, k, e) ==
    LET f == find_char(pat, "-", k, e)
    IN  IF f = 0 THEN {} ELSE {f} \cup range_hyphens(pat, f + 3, e)

\* whether the bracket expression pat[j..close] matches the character c:
\* pat[s..e] is what lies between the brackets, a leading "!" negates, a
\* hyphen that is not the last character joins its neighbours into a range,
\* a range whose ends are out of order is dropped with both its ends, every
\* other character stands for itself
bracket_matches(c, pat, j, close) ==
    LET negated == pat[j + 1] = "!"
        s == IF negated THEN j + 2 ELSE j + 1
        e == close - 1
        ranges == {f \in range_hyphens(pat, s + 1, e) : f < e}
        in_range == {q \in s..e : \E f \in ranges : q \in {f - 1, f, f + 1}}
        hit == \/ \E q \in (s..e) \ in_range : pat[q] = c
               \/ \E f \in ranges :
                     /\ code_point(pat[f - 1]) <= code_point(c)
                     /\ code_point(c) <= code_point(pat[f + 1])
    IN  IF negated THEN ~hit ELSE hit

RECURSIVE fn_match(_, _, _, _)
\* whether name[i..] matches pat[j..] as fnmatch.translate(pat) has it
fn_match(name, i, pat, j) ==
    IF j > Len(pat) THEN i > Len(name)
    ELSE IF pat[j] = "*"
    THEN fn_match(name, i, pat, j + 1) \/ (i <= Len(name) /\ fn_match(name, i + 1, pat, j))
    ELSE IF pat[j] = "?"
    THEN i <= Len(name) /\ fn_match(name, i + 1, pat, j + 1)
    ELSE IF pat[j] = "[" /\ bracket_close(pat, j) # 0
    THEN /\ i <= Len(name)
         /\ bracket_matches(name[i], pat, j, bracket_close(pat, j))
         /\ fn_match(name, i + 1, pat, bracket_close(pat, j) + 1)
    ELSE i <= Len(name) /\ name[i] = pat[j] /\ fn_match(name, i + 1, pat, j + 1)

\* fnmatch.fnmatch(name, pat) on POSIX
fnmatch(name, pat) == fn_match(name, 1, pat, 1)

\* glob._glob1: the names in directory d ("" is the working directory) that
\* match the pattern; a name starting with a dot only matches a pattern
\* starting with a dot; a directory that cannot be listed has no names
glob1(fsys, d, pattern, dironly) ==
    LET r == resolve(fsys, IF d = <<>> THEN <<".">> ELSE d)
    IN  IF r.err # "" \/ ~is_dir(fsys, r.key) THEN {}
        ELSE {n \in listdir(fsys, r.key) :
                 /\ dironly => is_dir(fsys, child(r.key, n))
                 /\ pattern[1] # "." => n[1] # "."
                 /\ fnmatch(n, pattern)}

\* glob._glob0: the name itself if it exists in directory d
glob0(fsys, d, name) ==
    IF name # <<>>
    THEN (IF path_exists(fsys, path_join(d, name)) THEN {name} ELSE {})
    ELSE (IF path_isdir(fsys, d) THEN {name} ELSE {})

RECURSIVE glob_in_dirs(_, _, _, _, _)
\* the loop that ends glob._iglob: for each directory of ds from the i-th on,
\* in turn, its matches in the order the directory lists them
glob_in_dirs(fsys, ds, name, dironly, i) ==
    IF i > Len(ds) THEN {<<>>}
    ELSE LET found == IF has_magic(name) THEN glob1(fsys, ds[i], name, dironly)
                      ELSE glob0(fsys, ds[i], name)
         IN  {[j \in 1..Len(o) |-> path_join(ds[i], o[j])] \o rest :
                 o \in Orderings(found),
                 rest \in glob_in_dirs(fsys, ds, name, dironly, i + 1)}

RECURSIVE iglob(_, _, _)
\* glob._iglob(pathname, dironly), not recursive, hidden names not included:
\* the lists it can yield
iglob(fsys, pathname, dironly) ==
    IF ~has_magic(pathname)
    THEN (IF basename(pathname) # <<>>
          THEN (IF path_exists(fsys, pathname) THEN {<<pathname>>} ELSE {<<>>})
          ELSE (IF path_isdir(fsys, dirname(pathname)) THEN {<<pathname>>} ELSE {<<>>}))
    ELSE IF dirname(pathname) = <<>>
    THEN Orderings(glob1(fsys, <<>>, basename(pathname), dironly))
    ELSE UNION {glob_in_dirs(fsys, ds, basename(pathname), dironly, 1) :
                   ds \in IF dirname(pathname) # pathname /\ has_magic(dirname(pathname))
                          THEN iglob(fsys, dirname(pathname), TRUE)
                          ELSE {<<dirname(pathname)>>}}

\* glob.glob(os.path.join(d, "*" + ext)): the lists it can return
glob(fsys, d, ext) == iglob(fsys, path_join(d, <<"*">> \o ext), FALSE)

(***************************************************************************)
(* find_excel_files                                                        *)
(***************************************************************************)
\* variant: the filter of lines 112-116 left out
keep_path_unfiltered(file_path) == TRUE
\* lines 112-116: the paths that contain neither directory name
keep_path(file_path) ==
    /\ ~Contains(file_path, S_modified_excel_workbooks)
    /\ ~Contains(file_path, S_archived_data)

\* the lists find_excel_files(d) can return: the *.xlsx matches, then the
\* *.xls matches, each in the order glob lists them, filtered
find_excel_files(fsys, d) ==
    {SelectSeq(a \o b, keep_path) : a \in glob(fsys, d, S_xlsx), b \in glob(fsys, d, S_xls)}

(***************************************************************************)
(* The directory scan: one tree, one call of find_excel_files.             *)
(***************************************************************************)
\* entries a scanned tree is drawn from, named relative to its root
FindPool ==
    { [name |-> <<"a", ".", "x", "l", "s", "x">>, content |-> Workbook(<<"hidden">>)],
      [name |-> <<"b", ".", "x", "l", "s">>, content |-> Workbook(<<"visible">>)],
      [name |-> <<"c", ".", "t", "x", "t">>, content |-> Corrupt],
      [name |-> <<".", "h", ".", "x", "l", "s", "x">>, content |-> Workbook(<<"visible">>)],
      [name |-> <<"a", "r", "c", "h", "i", "v", "e", "d", "_", "d", "a", "t", "a", ".", "x", "l", "s", "x">>, content |-> Workbook(<<"visible">>)],
      [name |-> <<"x", "_", "m", "o", "d", "i", "f", "i", "e", "d", "_", "e", "x", "c", "e", "l", "_", "w", "o", "r", "k", "b", "o", "o", "k", "s", ".", "x", "l", "s">>, content |-> Workbook(<<"visible">>)],
      [name |-> <<"d", ".", "x", "l", "s", "x">>, content |-> Dir],
      [name |-> <<"a", "r", "c", "h", "i", "v", "e", "d", "_", "d", "a", "t", "a", "/", "f", ".", "x", "l", "s", "x">>, content |-> Workbook(<<"visible">>)],
      [name |-> <<"m", "o", "d", "i", "f", "i", "e", "d", "_", "e", "x", "c", "e", "l", "_", "w", "o", "r", "k", "b", "o", "o", "k", "s", "/", "e", ".", "x", "l", "s", "x">>, content |-> Workbook(<<"visible">>)] }

\* the directory a tree is built in and the `directory` argument of the scan:
\* the directory itself, with a trailing slash, as the working directory
\* ("." and ""), by way of the directory above the working directory, under
\* a name containing archived_data, and as a pattern
ScanCases ==
    { [root |-> <<".">>, directory |-> <<".">>],
      [root |-> <<".">>, directory |-> <<>>],
      [root |-> <<"i", "n">>, directory |-> <<"i", "n">>],
      [root |-> <<"i", "n">>, directory |-> <<"i", "n", "/">>],
      [root |-> <<"i", "n">>, directory |-> <<".", ".", "/", "w", "2", "/", "i", "n">>],
      [root |-> <<"i", "n">>, directory |-> <<"i", "[", "n", "]">>],
      [root |-> <<"i", "n">>, directory |-> <<"*">>],
      [root |-> <<"i", "n">>, directory |-> <<".", ".", "/", "*", "/", "i", "n">>],
      [root |-> <<"o", "l", "d", "_", "a", "r", "c", "h", "i", "v", "e", "d", "_", "d", "a", "t", "a">>, directory |-> <<"o", "l", "d", "_", "a", "r", "c", "h", "i", "v", "e", "d", "_", "d", "a", "t", "a">>] }

RECURSIVE ancestors(_)
\* the keys of the listed directories above the entry with key k
ancestors(k) ==
    IF implicit_dir(parent(k)) THEN {} ELSE {parent(k)} \cup ancestors(parent(k))

\* the filesystem holding the directory with key d and the chosen entries
\* under it, with the directories the entries lie in
TreeOf(d, chosen) ==
    LET keys == {child(d, e.name) : e \in chosen}
        above == UNION {ancestors(k) : k \in keys \cup {d}}
        dirs == (above \cup (IF implicit_dir(d) THEN {} ELSE {d})) \ keys
    IN  [k \in keys \cup dirs |->
            IF k \in keys
            THEN LET e == CHOOSE x \in chosen : child(d, x.name) = k
                 IN  At(e.content, k)
            ELSE Dir]

DateIdle ==
    /\ filename = <<>> /\ date_tuple = None /\ formatted_date = None
    /\ new_filename = None /\ dpc = "idle"

InitFind ==
    /\ \E case \in ScanCases, chosen \in SUBSET FindPool :
          /\ Cardinality(chosen) <= MaxFiles
          /\ directory = case.directory
          /\ fs = TreeOf(case.root, chosen)
    /\ output_dir = <<>> /\ archive_dir = <<>>
    /\ excel_files = <<>> /\ results = <<>> /\ idx = 0 /\ log = <<>>
    /\ pc = "scan"
    /\ today = None
    /\ DateIdle

\* a call of find_excel_files(directory)
FindExcelFiles ==
    /\ pc = "scan"
    /\ excel_files' \in find_excel_files(fs, directory)
    /\ pc' = "found"
    /\ UNCHANGED <<fs, directory, output_dir, archive_dir, results, idx, log>>
    /\ UNCHANGED date_vars

NextFind == FindExcelFiles

SpecFind == InitFind /\ [][NextFind]_vars

(***************************************************************************)
(* Properties of the directory scan.                                       *)
(***************************************************************************)
\* the key of the entry the path p names in fs
KeyOf(p) == resolve(fs, p).key

\* the key of the scanned directory; "" is the working directory
ScannedKey == IF directory = <<>> THEN <<".">> ELSE KeyOf(directory)

\* the entry with key k lies directly in the scanned directory
DirectlyIn(k) == k \in DOMAIN fs /\ k # ScannedKey /\ parent(k) = ScannedKey

HasNoSpecialName(p) ==
    ~Contains(p, S_modified_excel_workbooks) /\ ~Contains(p, S_archived_data)

\* the full path of the entry with key k of the scanned directory
FullPath(k) == path_join(directory, basename(k))

\* C4 as stated: the result is exactly the files directly in the directory
\* whose extension is .xlsx or .xls and whose path contains neither
\* modified_excel_workbooks nor archived_data ("files" read as entries of
\* any kind).
C4_ExactlyTheWorkbookFiles ==
    (pc = "found") =>
        {KeyOf(p) : p \in Range(excel_files)} =
            {k \in DOMAIN fs :
                /\ DirectlyIn(k)
                /\ splitext_ext(k) \in {S_xlsx, S_xls}
                /\ HasNoSpecialName(FullPath(k))}

\* C4 amended: for a directory name without the wildcard characters * ? [ the
\* result lists, each once, exactly the directory entries (glob does not tell
\* files from directories) directly in the directory whose name does not
\* start with a dot and ends with .xlsx or .xls and whose path contains
\* neither modified_excel_workbooks nor archived_data; no returned path
\* contains either substring, has another extension or lies in a subdirectory.
C4_VisibleWorkbookEntries ==
    (pc = "found" /\ ~has_magic(directory)) =>
        /\ {KeyOf(p) : p \in Range(excel_files)} =
              {k \in DOMAIN fs :
                  /\ DirectlyIn(k)
                  /\ basename(k)[1] # "."
                  /\ splitext_ext(k) \in {S_xlsx, S_xls}
                  /\ HasNoSpecialName(FullPath(k))}
        /\ Cardinality({KeyOf(p) : p \in Range(excel_files)}) = Len(excel_files)
        /\ \A i \in 1..Len(excel_files) :
              /\ HasNoSpecialName(excel_files[i])
              /\ path_exists(fs, excel_files[i])
              /\ DirectlyIn(KeyOf(excel_files[i]))
              /\ endswith(excel_files[i], S_xlsx) \/ endswith(excel_files[i], S_xls)

\* a scan of "in" that returns a.xlsx and leaves out the entry whose own
\* name contains archived_data
C4_Witness ==
    /\ pc = "found"
    /\ directory = <<"i", "n">>
    /\ <<"i", "n", "/", "a", "r", "c", "h", "i", "v", "e", "d", "_", "d", "a", "t", "a", ".", "x", "l", "s", "x">> \in DOMAIN fs
    /\ excel_files = << <<"i", "n", "/", "a", ".", "x", "l", "s", "x">> >>

(***************************************************************************)
(* The per-file sequence.  Each operator returns what the call did: raised *)
(* and error (the exception, if one was raised), fs (the filesystem it     *)
(* left) and its result.  `fault` names the I/O fault the environment      *)
(* injects into the call: "none", "makedirs_output", "makedirs_archive",   *)
(* "load" (no memory for the workbook), "save" (nothing written),          *)
(* "save_partial" (an incomplete file left), "move" (nothing moved) or     *)
(* "move_copied" (the copy made, the source not removed).                  *)
(***************************************************************************)
Faults ==
    {"makedirs_output", "makedirs_archive", "load", "save", "save_partial", "move",
     "move_copied"}

\* the exceptions raised without arguments: the interpreter raises
\* MemoryError() when an allocation fails
WithoutArguments == {"MemoryError"}

\* str(e) for an exception of the type named `error`: its message, written
\* here as the name of its type, and the empty string for an exception
\* raised without arguments
str_e(error) == IF error \in WithoutArguments THEN "" ELSE error

\* what a step that went through reports
Done(fsys) == [raised |-> FALSE, error |-> "", fs |-> fsys]

\* what a step that raised reports
Fails(error, fsys) == [raised |-> TRUE, error |-> error, fs |-> fsys]

\* os.mkdir(name): the directory the name is looked up in must exist and the
\* name must be free; trailing slashes are ignored
mkdir(fsys, name) ==
    LET r == resolve(fsys, IF rstrip_slash(name) = <<>> THEN name ELSE rstrip_slash(name))
    IN  IF r.err # "" THEN Fails(r.err, fsys)
        ELSE IF exists(fsys, r.key) THEN Fails("FileExistsError", fsys)
        ELSE Done(write_at(fsys, r.key, Dir))

RECURSIVE makedirs(_, _, _)
\* os.makedirs(name, exist_ok=True): the missing directories above the leaf
\* are made first, then the leaf; an error of the last mkdir is dropped when
\* the leaf is a directory
makedirs(fsys, name, faulty) ==
    LET head == IF basename(name) = <<>> THEN dirname(dirname(name)) ELSE dirname(name)
        tail == IF basename(name) = <<>> THEN basename(dirname(name)) ELSE basename(name)
        climbs == head # <<>> /\ tail # <<>> /\ ~path_exists(fsys, head)
        up == IF climbs THEN makedirs(fsys, head, FALSE) ELSE Done(fsys)
        made == mkdir(up.fs, name)
    IN  IF faulty THEN Fails("PermissionError", fsys)
        ELSE IF up.raised /\ up.error # "FileExistsError" THEN up
        ELSE IF climbs /\ tail = <<".">> THEN Done(up.fs)
        ELSE IF made.raised /\ ~path_isdir(up.fs, name) THEN made
        ELSE Done(made.fs)

get_output_path(fsys, name, out_dir, fault) ==
    [made |-> makedirs(fsys, out_dir, fault = "makedirs_output"),
     path |-> path_join(out_dir, name)]

\* variant: the archive path built in the default output directory
get_archive_path_in_output_dir(fsys, name, arch_dir, fault) ==
    [made |-> makedirs(fsys, arch_dir, fault = "makedirs_archive"),
     path |-> path_join(S_modified_excel_workbooks, name)]
get_archive_path(fsys, name, arch_dir, fault) ==
    [made |-> makedirs(fsys, arch_dir, fault = "makedirs_archive"),
     path |-> path_join(arch_dir, name)]

\* the extensions openpyxl accepts
SupportedFormats == {<<".", "x", "l", "s", "x">>, <<".", "x", "l", "s", "m">>, <<".", "x", "l", "t", "x">>, <<".", "x", "l", "t", "m">>}

\* openpyxl.load_workbook(excel_path): a path whose extension, lower-cased,
\* is not a supported format is refused before the file is opened (so every
\* .xls path is); then the file is opened and read as a workbook
load_workbook(fsys, excel_path) ==
    LET r == resolve(fsys, excel_path)
    IN  IF lower(splitext_ext(excel_path)) \notin SupportedFormats
        THEN [raised |-> TRUE, error |-> "InvalidFileException", wb |-> None]
        ELSE IF r.err # ""
        THEN [raised |-> TRUE, error |-> r.err, wb |-> None]
        ELSE IF ~exists(fsys, r.key)
        THEN [raised |-> TRUE, error |-> "FileNotFoundError", wb |-> None]
        ELSE IF is_dir(fsys, r.key)
        THEN [raised |-> TRUE, error |-> "IsADirectoryError", wb |-> None]
        ELSE IF fsys[r.key].kind # "workbook"
        THEN [raised |-> TRUE, error |-> "BadZipFile", wb |-> None]
        ELSE [raised |-> FALSE, error |-> "", wb |-> Some(fsys[r.key])]

\* the workbook as Workbook.save writes it after line 130
unhidden(wb) ==
    [kind |-> "workbook", origin |-> wb.origin, writer |-> "openpyxl",
     sheets |-> [i \in 1..Len(wb.sheets) |-> "visible"]]

\* what a save that failed midway leaves behind
partial(wb) ==
    [kind |-> "corrupt", origin |-> wb.origin, writer |-> "openpyxl", sheets |-> <<>>]

\* unhide_all_sheets(excel_path, output_path); output_path <<>> is None
unhide_all_sheets(fsys, excel_path, output_path, fault) ==
    LET dest == resolve(fsys, IF output_path # <<>> THEN output_path ELSE excel_path)
        loaded == load_workbook(fsys, excel_path)
    IN  IF loaded.raised
        THEN [raised |-> TRUE, at |-> "load", error |-> loaded.error, fs |-> fsys]
        ELSE IF fault = "load"
        THEN [raised |-> TRUE, at |-> "load", error |-> "MemoryError", fs |-> fsys]
        ELSE IF fault = "save"
        THEN [raised |-> TRUE, at |-> "save", error |-> "PermissionError", fs |-> fsys]
        ELSE IF dest.err # ""
        THEN [raised |-> TRUE, at |-> "save", error |-> dest.err, fs |-> fsys]
        ELSE IF is_dir(fsys, dest.key)
        THEN [raised |-> TRUE, at |-> "save", error |-> "IsADirectoryError", fs |-> fsys]
        ELSE IF fault = "save_partial"
        THEN [raised |-> TRUE, at |-> "save", error |-> "OSError",
              fs |-> write_at(fsys, dest.key, partial(loaded.wb[1]))]
        ELSE [raised |-> FALSE, at |-> "none", error |-> "",
              fs |-> write_at(fsys, dest.key, unhidden(loaded.wb[1]))]

\* variant: the original copied, not moved
shutil_copy(fsys, src, dst, fault) ==
    LET real_dst == IF path_isdir(fsys, dst) THEN path_join(dst, basename(rstrip_slash(src))) ELSE dst
        from == resolve(fsys, src)
        to == resolve(fsys, real_dst)
    IN  IF fault \in {"move", "move_copied"} \/ from.err # "" \/ to.err # ""
        THEN [raised |-> TRUE, error |-> "PermissionError", fs |-> fsys, dest |-> None]
        ELSE [raised |-> FALSE, error |-> "",
              fs |-> write_at(fsys, to.key, fsys[from.key]), dest |-> Some(to.key)]
\* shutil.move(src, dst) for a src that is not a directory: into dst if dst
\* is a directory, where nothing of its name may be, else onto dst; dest is
\* the key of what was written.  os.rename moves the file onto a free name
\* or onto another file; where it fails the file is copied, and the
\* exception of the copy is raised: a dst with a trailing slash whose last
\* component is not a directory cannot be opened and is reported as a
\* missing directory.  The move of a directory is not modelled: line 160
\* moves excel_path, which load_workbook has read as a file at line 128
shutil_move(fsys, src, dst, fault) ==
    LET onto == resolve(fsys, dst)
        into == onto.err = "" /\ is_dir(fsys, onto.key)
        from == resolve(fsys, src)
        real_dst == IF into THEN path_join(dst, basename(rstrip_slash(src))) ELSE dst
        to == IF into THEN resolve(fsys, real_dst) ELSE onto
        same == from.err = "" /\ to.err = "" /\ from.key = to.key
    IN  IF from.err = "" /\ is_dir(fsys, from.key)
        THEN CHOOSE unmodelled \in {} : TRUE
        ELSE IF into /\ to.err = "" /\ exists(fsys, to.key)
        THEN [raised |-> TRUE, error |-> "Error", fs |-> fsys, dest |-> None]
        ELSE IF from.err # ""
        THEN [raised |-> TRUE, error |-> from.err, fs |-> fsys, dest |-> None]
        ELSE IF ~exists(fsys, from.key)
        THEN [raised |-> TRUE, error |-> "FileNotFoundError", fs |-> fsys, dest |-> None]
        ELSE IF /\ to.err # "" /\ dst # <<>> /\ dst[Len(dst)] = "/"
                /\ resolve(fsys, rstrip_slash(dst)).err = ""
        THEN [raised |-> TRUE, error |-> "FileNotFoundError", fs |-> fsys, dest |-> None]
        ELSE IF to.err # ""
        THEN [raised |-> TRUE, error |-> to.err, fs |-> fsys, dest |-> None]
        ELSE IF fault = "move"
        THEN [raised |-> TRUE, error |-> "PermissionError", fs |-> fsys, dest |-> None]
        ELSE IF fault = "move_copied" /\ ~same
        THEN [raised |-> TRUE, error |-> "PermissionError",
              fs |-> write_at(fsys, to.key, fsys[from.key]), dest |-> Some(to.key)]
        ELSE IF fault = "move_copied"
        THEN [raised |-> TRUE, error |-> "PermissionError", fs |-> fsys, dest |-> None]
        ELSE IF same
        THEN [raised |-> FALSE, error |-> "", fs |-> fsys, dest |-> Some(to.key)]
        ELSE [raised |-> FALSE, error |-> "",
              fs |-> [k \in (DOMAIN fsys \ {from.key}) \cup {to.key} |->
                         IF k = to.key THEN fsys[from.key] ELSE fsys[k]],
              dest |-> Some(to.key)]

\* what a call that raised at step `at` reports; output_path and
\* archive_path are the locals of lines 152-153, <<>> when not reached
Raised(at, error, fsys, output_path, archive_path, saved, moved) ==
    [raised |-> TRUE, at |-> at, error |-> error, ret |-> None, fs |-> fsys,
     output_path |-> output_path, archive_path |-> archive_path,
     saved |-> saved, moved |-> moved]

\* lines 161-162: the call once shutil.move has acted
then_return(output_path, archive_path, saved_key, moved) ==
    IF moved.raised
    THEN Raised("move", moved.error, moved.fs, Some(output_path), Some(archive_path),
                Some(saved_key), moved.dest)
    ELSE [raised |-> FALSE, at |-> "none", error |-> "", ret |-> Some(output_path),
          fs |-> moved.fs,
          output_path |-> Some(output_path), archive_path |-> Some(archive_path),
          saved |-> Some(saved_key), moved |-> moved.dest]

\* variant: the original archived even when the save raised
then_move_despite_failed_save(fsys, excel_path, output_path, archive_path, fault, saved) ==
    IF saved.raised
    THEN Raised(saved.at, saved.error,
                shutil_move(saved.fs, excel_path, archive_path, "none").fs,
                Some(output_path), Some(archive_path), None, None)
    ELSE then_return(output_path, archive_path, resolve(saved.fs, output_path).key,
                     shutil_move(saved.fs, excel_path, archive_path, fault))
\* lines 159-162: the call once unhide_all_sheets has acted on fsys; an
\* exception of it leaves the function before the move
then_move(fsys, excel_path, output_path, archive_path, fault, saved) ==
    IF saved.raised
    THEN Raised(saved.at, saved.error, saved.fs, Some(output_path), Some(archive_path),
                IF saved.fs = fsys THEN None
                ELSE Some(resolve(saved.fs, output_path).key), None)
    ELSE then_return(output_path, archive_path, resolve(saved.fs, output_path).key,
                     shutil_move(saved.fs, excel_path, archive_path, fault))

\* lines 155-162: the call once get_archive_path has acted
then_unhide(excel_path, output_path, fault, arch) ==
    IF arch.made.raised
    THEN Raised("makedirs_archive", arch.made.error, arch.made.fs,
                Some(output_path), None, None, None)
    ELSE then_move(arch.made.fs, excel_path, output_path, arch.path, fault,
                   unhide_all_sheets(arch.made.fs, excel_path, output_path, fault))

\* lines 153-162: the call once get_output_path has acted
then_archive_path(excel_path, arch_dir, fault, out) ==
    IF out.made.raised
    THEN Raised("makedirs_output", out.made.error, out.made.fs, None, None, None, None)
    ELSE then_unhide(excel_path, out.path, fault,
                     get_archive_path(out.made.fs, basename(excel_path), arch_dir, fault))

\* process_excel_file(excel_path, out_dir, arch_dir) with the clock at `now`;
\* saved and moved are the keys of what the save and the move wrote
process_excel_file(fsys, excel_path, out_dir, arch_dir, now, fault) ==
    then_archive_path(excel_path, arch_dir, fault,
                      get_output_path(fsys, create_new_filename(basename(excel_path), now),
                                      out_dir, fault))

\* whether the injected fault is the exception the call raised
fault_fired(r, fault) ==
    /\ r.raised
    /\ r.error \in {"PermissionError", "OSError", "MemoryError"}
    /\ (r.error = "MemoryError") = (fault = "load")
    /\ \/ r.at = fault
       \/ (r.at = "save" /\ fault = "save_partial")
       \/ (r.at = "move" /\ fault = "move_copied")

(***************************************************************************)
(* process_all_excel_files                                                 *)
(***************************************************************************)
\* lines 181-188: the entry one iteration leaves in results; the error of a
\* failure is str(e)
record_result(res, file_path, r) ==
    write_at(res, file_path,
             IF r.raised
             THEN [status |-> FALSE, output |-> None, error |-> Some(str_e(r.error))]
             ELSE [status |-> TRUE, output |-> r.ret, error |-> None])

\* variant: an exception of the call leaves the loop and the function
after_iteration_uncaught(raised) == IF raised THEN "aborted" ELSE "loop"
\* lines 183-188: where control is after an iteration; `except Exception`
\* catches whatever the call raised and the loop goes on
after_iteration(raised) == "loop"

(***************************************************************************)
(* The batch: one tree, one call of process_all_excel_files.               *)
(***************************************************************************)
S_in == <<"i", "n">>
N_plain == <<"t", "e", "s", "t", ".", "x", "l", "s", "x">>
N_dotted == <<"0", "4", ".", "2", "7", ".", "2", "5", ".", "x", "l", "s", "x">>
N_prefixed == <<"0", "4", "-", "2", "7", "-", "2", "0", "2", "5", "_", "0", "4", ".", "2", "7", ".", "2", "5", ".", "x", "l", "s", "x">>
\* a directory two levels down, named like the archive path of N_prefixed
S_nested == path_join(S_archived_data, N_prefixed)
N_corrupt == <<"W", "E", " ", "0", "4", "2", "0", "2", "5", ".", "x", "l", "s", "x">>
N_old == <<"o", "l", "d", ".", "x", "l", "s">>

\* entries of the scanned directory
BatchPool ==
    { [name |-> N_plain, content |-> Workbook(<<"hidden">>)],
      [name |-> N_dotted, content |-> Workbook(<<"visible", "veryHidden">>)],
      [name |-> N_prefixed, content |-> Workbook(<<"visible">>)],
      [name |-> N_corrupt, content |-> Corrupt],
      [name |-> N_old, content |-> Workbook(<<"hidden">>)] }

\* entries elsewhere: a directory where the archive path of test.xlsx will be
ExtraPool == { [name |-> path_join(S_archived_data, N_plain), content |-> Dir] }

\* the archive directory by way of the directory above the working directory
S_up_archived_data == <<".", ".", "/", "w", "2", "/", "a", "r", "c", "h", "i", "v", "e", "d", "_", "d", "a", "t", "a">>

\* the output_dir and archive_dir arguments: the defaults, the scanned
\* directory for both, an output directory two levels down, at the archive
\* path of a file of the pool, and one directory under two names
BatchConfigs ==
    { [out |-> S_modified_excel_workbooks, arch |-> S_archived_data],
      [out |-> S_in, arch |-> S_in],
      [out |-> S_nested, arch |-> S_archived_data],
      [out |-> S_up_archived_data, arch |-> S_archived_data] }

\* the values datetime.now() returns during the batch: a Sunday and the
\* Wednesday after it
BatchTodays == {<<2024, 5, 12>>, <<2024, 5, 15>>}

InitBatch ==
    /\ directory = S_in
    /\ \E cfg \in BatchConfigs : output_dir = cfg.out /\ archive_dir = cfg.arch
    /\ \E chosen \in SUBSET BatchPool, extra \in SUBSET ExtraPool :
          /\ Cardinality(chosen) + Cardinality(extra) <= MaxFiles
          /\ fs = LET tree == TreeOf(directory, chosen)
                      more == TreeOf(<<".">>, extra)
                  IN  [k \in DOMAIN tree \cup DOMAIN more |->
                          IF k \in DOMAIN tree THEN tree[k] ELSE more[k]]
    /\ today = None
    /\ excel_files = <<>> /\ results = <<>> /\ idx = 0 /\ log = <<>>
    /\ pc = "start"
    /\ DateIdle

\* line 177-178: the scan and the empty results
ProcessAllStart ==
    /\ pc = "start"
    /\ excel_files' \in find_excel_files(fs, directory)
    /\ results' = <<>>
    /\ pc' = "loop"
    /\ UNCHANGED <<fs, directory, output_dir, archive_dir, idx, log>>
    /\ UNCHANGED date_vars

\* the faults injected so far
InjectedCount == Cardinality({i \in 1..Len(log) : log[i].fault # "none"})

\* lines 181-188: what an iteration leaves, r being what the call did and
\* now what the clock read if the call read it
Iteration(file_path, fault, now, r) ==
    /\ fault # "none" => (InjectedCount < MaxFaults /\ fault_fired(r, fault))
    /\ fs' = r.fs
    /\ results' = record_result(results, file_path, r)
    /\ today' = now
    /\ log' = Append(log, [path |-> file_path, fault |-> fault, now |-> now,
                           raised |-> r.raised, at |-> r.at, ret |-> r.ret,
                           before |-> fs,
                           output_path |-> r.output_path,
                           archive_path |-> r.archive_path,
                           saved |-> r.saved, moved |-> r.moved])
    /\ pc' = after_iteration(r.raised)

\* lines 180-188: one iteration of the for loop; the call reads the clock
\* anew (line 34) when the name of its file has no date
ProcessNextFile ==
    /\ pc = "loop"
    /\ idx < Len(excel_files)
    /\ \E now \in BatchTodays, fault \in Faults \cup {"none"} :
          Iteration(excel_files[idx + 1], fault,
                    IF reads_clock(basename(excel_files[idx + 1])) THEN now ELSE None,
                    process_excel_file(fs, excel_files[idx + 1], output_dir, archive_dir,
                                       now, fault))
    /\ idx' = idx + 1
    /\ UNCHANGED <<directory, output_dir, archive_dir, excel_files>>
    /\ UNCHANGED <<filename, date_tuple, formatted_date, new_filename, dpc>>

\* line 190
ProcessAllReturn ==
    /\ pc = "loop"
    /\ idx = Len(excel_files)
    /\ pc' = "returned"
    /\ UNCHANGED <<fs, directory, output_dir, archive_dir, excel_files, results, idx, log>>
    /\ UNCHANGED date_vars

NextBatch == ProcessAllStart \/ ProcessNextFile \/ ProcessAllReturn

SpecBatch == InitBatch /\ [][NextBatch]_vars

(***************************************************************************)
(* The whole program: any of the calls above.                              *)
(***************************************************************************)
Init == InitDate \/ InitFind \/ InitBatch

Next == NextDate \/ NextFind \/ NextBatch

Spec == Init /\ [][Next]_vars

(***************************************************************************)
(* Properties of the batch.                                                *)
(***************************************************************************)
\* output_dir joined with MM-DD-YYYY of the date extracted from the name of
\* p by a call that read `now` from the clock, "_" and the name
PlannedOutput(p, now) ==
    path_join(output_dir,
              format_date(extract_date_from_filename(basename(p), now))
                  \o <<"_">> \o basename(p))

\* archive_dir joined with the unmodified name
PlannedArchive(p) == path_join(archive_dir, basename(p))

\* the key of the entry the path q names, <<>> if the lookup fails
OutKey(p, now) == KeyOf(PlannedOutput(p, now))

ArchKey(p) == KeyOf(PlannedArchive(p))

\* fsys holds at key k the workbook wb with every sheet visible
HoldsTransformed(fsys, k, wb) ==
    /\ k \in DOMAIN fsys
    /\ fsys[k].kind = "workbook"
    /\ fsys[k].writer = "openpyxl"
    /\ fsys[k].origin = wb.origin
    /\ Len(fsys[k].sheets) = Len(wb.sheets)
    /\ \A i \in 1..Len(wb.sheets) : fsys[k].sheets[i] = "visible"

\* key k holds in fs what it held in fsys, or nothing in both
SameAt(fsys, k) ==
    /\ k \in DOMAIN fs <=> k \in DOMAIN fsys
    /\ k \in DOMAIN fs => fs[k] = fsys[k]

\* the files of fs are those of fsys, the keys in `except` apart
SameFilesBut(fsys, except) ==
    \A k \in (DOMAIN Files(fs) \cup DOMAIN Files(fsys)) \ except : SameAt(fsys, k)

\* C1: the batch never aborts on a per-file failure: every consumed file has
\* its entry, true if its call returned and false if it raised, and the
\* returned mapping has exactly one entry per discovered file.
C1_NeverAborts ==
    /\ pc # "aborted"
    /\ pc \in {"loop", "returned"} =>
          /\ Len(log) = idx
          /\ \A i \in 1..idx :
                /\ log[i].path = excel_files[i]
                /\ excel_files[i] \in DOMAIN results
                /\ results[excel_files[i]].status = ~log[i].raised
    /\ pc = "returned" =>
          /\ idx = Len(excel_files)
          /\ DOMAIN results = Range(excel_files)
          /\ Cardinality(DOMAIN results) = Len(excel_files)

\* the first file failed to load, the second was processed, by a call that
\* read the clock on a Sunday, and its output is on disk
C1_Witness ==
    /\ pc = "returned"
    /\ Len(log) = 2
    /\ log[1].raised /\ log[1].at = "load"
    /\ ~log[2].raised
    /\ log[2].now = <<2024, 5, 12>>
    /\ ~results[excel_files[1]].status
    /\ results[excel_files[2]].status
    /\ path_exists(fs, log[2].ret[1])

\* C2 as stated: after a call that returned, the return value is the planned
\* output path, the transformed workbook is there, the original is at the
\* archive path and nothing is at the source path.
C2_MovedAlways ==
    (pc \in {"loop", "returned"} /\ idx >= 1 /\ ~log[idx].raised) =>
        LET p == log[idx].path
            before == log[idx].before
            src == KeyOf(p)
            out == OutKey(p, log[idx].now)
            arch == ArchKey(p)
            original == before[src]
        IN  /\ log[idx].ret = Some(PlannedOutput(p, log[idx].now))
            /\ HoldsTransformed(fs, out, original)
            /\ arch \in DOMAIN fs
            /\ fs[arch] = original
            /\ ~path_exists(fs, p)

\* C2 amended: after a call that returned, the return value is the planned
\* output path and the transformed workbook is there; the original is at the
\* archive path and nothing is at the source path provided the archive path
\* is neither the source path itself nor a directory when the move is made,
\* one that was there or that the call made as output_dir (then the original
\* stays where it is, or is moved into that directory).
C2_MovedUnlessSamePathOrDirectory ==
    (pc \in {"loop", "returned"} /\ idx >= 1 /\ ~log[idx].raised) =>
        LET p == log[idx].path
            before == log[idx].before
            src == KeyOf(p)
            out == OutKey(p, log[idx].now)
            arch == ArchKey(p)
            original == before[src]
            inside == child(arch, basename(p))
        IN  /\ log[idx].ret = Some(PlannedOutput(p, log[idx].now))
            /\ HoldsTransformed(fs, out, original)
            /\ (arch # src /\ ~is_dir(fs, arch)) =>
                  /\ arch \in DOMAIN fs
                  /\ fs[arch] = original
                  /\ ~path_exists(fs, p)
            /\ arch = src =>
                  (src \in DOMAIN fs /\ fs[src] = original)
            /\ is_dir(fs, arch) =>
                  /\ is_dir(before, arch) \/ arch = KeyOf(output_dir)
                  /\ inside \in DOMAIN fs
                  /\ fs[inside] = original
                  /\ ~path_exists(fs, p)

\* test.xlsx processed on Wednesday 2024-05-15 with the default directories
C2_Witness ==
    /\ pc \in {"loop", "returned"}
    /\ idx >= 1
    /\ ~log[idx].raised
    /\ log[idx].path = path_join(S_in, N_plain)
    /\ log[idx].now = <<2024, 5, 15>>
    /\ log[idx].ret = Some(path_join(S_modified_excel_workbooks, <<"0", "5", "-", "1", "2", "-", "2", "0", "2", "4", "_">> \o N_plain))
    /\ path_join(S_archived_data, N_plain) \in DOMAIN fs
    /\ fs[path_join(S_archived_data, N_plain)].kind = "workbook"
    /\ path_join(S_in, N_plain) \notin DOMAIN fs

\* C3: every entry of the returned mapping has exactly one of output path and
\* error message populated: a true entry an output path and no error message,
\* a false entry an error message, one that is not empty, and no output
\* path.
C3_ExactlyOnePopulated ==
    (pc = "returned") =>
        \A p \in DOMAIN results :
            /\ results[p].status => (results[p].output # None /\ results[p].error = None)
            /\ ~results[p].status =>
                  /\ results[p].output = None
                  /\ results[p].error # None
                  /\ results[p].error # Some("")

\* the key the directory d has once os.makedirs has made it
MadeKey(d) == resolve(makedirs(fs, d, FALSE).fs, d).key

\* no output path a call of the run computed is an archive path a call of
\* the run computed, as a string or as the file it names, and no save wrote
\* where a move wrote
NoDestinationCollision ==
    LET outputs == {log[i].output_path[1] : i \in {i \in 1..Len(log) : log[i].output_path # None}}
        archives == {log[i].archive_path[1] : i \in {i \in 1..Len(log) : log[i].archive_path # None}}
    IN  /\ outputs \cap archives = {}
        /\ {KeyOf(o) : o \in outputs} \cap {KeyOf(a) : a \in archives} = {}
        /\ \A i, j \in 1..Len(log) :
              (log[i].saved # None /\ log[j].moved # None) => log[i].saved # log[j].moved

\* C5 as stated: in a run the output path of one file is never the archive
\* path of another (or the same) file, and no save and no move overwrites
\* what the other kind of step produced.
C5_NeverCollide ==
    (pc \in {"loop", "returned"}) => NoDestinationCollision

\* C5 amended: the same, provided output_dir and archive_dir name different
\* directories and output_dir is not the archive path of a discovered file
\* (a move to an archive path that is a directory goes into it).
C5_NeverCollideInDistinctDirs ==
    LET out_key == MadeKey(output_dir)
        arch_key == MadeKey(archive_dir)
    IN  (/\ pc \in {"loop", "returned"}
         /\ out_key # arch_key
         /\ \A i \in 1..Len(excel_files) :
               out_key # child(arch_key, basename(excel_files[i]))) =>
            NoDestinationCollision

\* with the default directories, a file and the file named like its output
\* were both processed
C5_Witness ==
    /\ pc = "returned"
    /\ output_dir = S_modified_excel_workbooks
    /\ archive_dir = S_archived_data
    /\ Len(log) = 2
    /\ {log[1].path, log[2].path} = {path_join(S_in, N_dotted), path_join(S_in, N_prefixed)}
    /\ ~log[1].raised /\ ~log[2].raised

\* C10 as stated: a call that raised leaves no trace: the original is at its
\* source path, nothing was moved to its archive path and no transformed
\* copy is at its output path.
C10_FailureLeavesNoTrace ==
    (pc \in {"loop", "returned"} /\ idx >= 1 /\ log[idx].raised) =>
        LET p == log[idx].path
            before == log[idx].before
            src == KeyOf(p)
            out == OutKey(p, log[idx].now)
            arch == ArchKey(p)
            original == before[src]
        IN  /\ src \in DOMAIN fs /\ fs[src] = original
            /\ SameAt(before, arch)
            /\ ~HoldsTransformed(fs, out, original)

\* C10 amended: a call that raised leaves the original at its source path;
\* a failure in directory creation or load changes no file; a failure in
\* save changes at most the output path; a failure in the move leaves the
\* transformed copy at the output path and changes at most the output and
\* archive paths: nothing is rolled back.  When the batch returns the
\* original of a failed file is still at its source path unless a later call
\* of the batch saved or moved a file to that path.
C10_FailureKeepsSource ==
    /\ (pc \in {"loop", "returned"} /\ idx >= 1 /\ log[idx].raised) =>
          LET p == log[idx].path
              before == log[idx].before
              src == KeyOf(p)
              out == OutKey(p, log[idx].now)
              arch == ArchKey(p)
              original == before[src]
          IN  /\ src \in DOMAIN fs /\ fs[src] = original
              /\ log[idx].at \in {"makedirs_output", "makedirs_archive", "load",
                                  "save", "move"}
              /\ log[idx].at \in {"makedirs_output", "makedirs_archive", "load"} =>
                    SameFilesBut(before, {})
              /\ log[idx].at = "save" => SameFilesBut(before, {out})
              /\ log[idx].at = "move" =>
                    /\ HoldsTransformed(fs, out, original)
                    /\ SameFilesBut(before, {out, arch,
                                             child(arch, basename(p))})
    /\ pc = "returned" =>
          \A i \in 1..Len(log) :
              log[i].raised =>
                  LET src == KeyOf(log[i].path)
                  IN  \/ src \in DOMAIN fs /\ fs[src] = log[i].before[src]
                      \/ \E j \in (i + 1)..Len(log) :
                            log[j].saved = Some(src) \/ log[j].moved = Some(src)

\* the move raised: the original is still at its source path and the
\* transformed copy was left at the output path
C10_Witness ==
    /\ pc \in {"loop", "returned"}
    /\ idx >= 1
    /\ log[idx].raised
    /\ log[idx].at = "move"
    /\ path_exists(fs, log[idx].path)
    /\ OutKey(log[idx].path, log[idx].now) \in DOMAIN fs
    /\ OutKey(log[idx].path, log[idx].now) \notin DOMAIN log[idx].before

=============================================================================
